---- MODULE Spec2Model ----
(***************************************************************************)
(* Model of pkg/azure/azure.go: a net/http middleware that validates Azure *)
(* AD bearer tokens.  A Validator is built once by NewValidator, then      *)
(* Validator.Middleware handles requests one after the other; the two      *)
(* JWKS caches are refreshed in the background.                            *)
(*                                                                         *)
(* Values are encoded uniformly so that TLC can compare them:              *)
(*   - a JSON value is a record [kind, str, items];                        *)
(*   - a Go string that the code slices (the Authorization header) is a    *)
(*     sequence of one-character strings, in which the unit "<jwt>" stands *)
(*     for the compact serialization of the request's token (req.jwt);     *)
(*   - a Go error is a record [is, detail]: `is` is the sentinel that      *)
(*     errors.Is finds, `detail` the rest of its text; nil is NoError.     *)
(***************************************************************************)
EXTENDS Naturals, Sequences, FiniteSets, TLC

VARIABLES
    phase,      \* "boot" | "constructed" | "failed" | "idle" | "done"
    ctor,       \* the NewValidator call being returned: its inputs and its error
    v,          \* the Validator (NilValidator before/without construction)
    jwksV1,     \* content of the v1 key set: key identifier -> public key
    jwksV2,     \* content of the v2 key set
    req,        \* the request being handled
    resp,       \* what the middleware wrote to the ResponseWriter
    nextCalls,  \* how often next.ServeHTTP ran for this request
    ctxClaims,  \* GetClaimsFromContext(r.Context()) as seen inside next
    log,        \* records written to v.logger for this request
    keyLog,     \* key set queries made for this request, in order
    masked      \* responses sent so far to requests whose validation failed

vars == <<phase, ctor, v, jwksV1, jwksV2, req, resp, nextCalls, ctxClaims,
          log, keyLog, masked>>

\* ------------------------------------------------------------------ bounds
MaxOpts == 2        \* options passed to one NewValidator call
MaxRoles == 3       \* elements of a token's `roles` list
MaxAud == 2         \* elements of a token's `aud` list

\* ------------------------------------------------------------- JSON values
Absent == [kind |-> "absent", str |-> "", items |-> <<>>]
Str(s) == [kind |-> "string", str |-> s, items |-> <<>>]
Num(n) == [kind |-> "number", str |-> n, items |-> <<>>]
List(xs) == [kind |-> "list", str |-> "", items |-> xs]

SeqsUpTo(S, n) == UNION {[1..k -> S] : k \in 0..n}

\* ------------------------------------------------------------------ errors
NoError == [is |-> "", detail |-> ""]
Err(sentinel, detail) == [is |-> sentinel, detail |-> detail]

ErrMissingAuthHeader == "ErrMissingAuthHeader"
ErrInvalidAuthHeaderFormat == "ErrInvalidAuthHeaderFormat"
ErrTokenParsingFailed == "ErrTokenParsingFailed"
ErrTokenInvalid == "ErrTokenInvalid"
ErrInvalidIssuer == "ErrInvalidIssuer"
ErrInvalidAudience == "ErrInvalidAudience"

\* --------------------------------------------------------------- Validator
NilLogger == "nil"
Validator(issuers, audiences, audCheck, logger) ==
    [validIssuers |-> issuers, validAudiences |-> audiences,
     isAudienceCheckEnabled |-> audCheck, logger |-> logger]

NilValidator == Validator(<<>>, <<>>, FALSE, NilLogger)

\* Options: each is a function applied to the Validator under construction.
WithAudiences(audiences) ==
    [opt |-> "WithAudiences", audiences |-> audiences, logger |-> NilLogger]
WithoutAudienceValidation ==
    [opt |-> "WithoutAudienceValidation", audiences |-> <<>>, logger |-> NilLogger]
WithLogger(logger) ==
    [opt |-> "WithLogger", audiences |-> <<>>, logger |-> logger]

ApplyOption(o, val) ==
    CASE o.opt = "WithAudiences" -> [val EXCEPT !.validAudiences = o.audiences]
      [] o.opt = "WithoutAudienceValidation" ->
            [val EXCEPT !.isAudienceCheckEnabled = FALSE]
      [] o.opt = "WithLogger" -> [val EXCEPT !.logger = o.logger]

\* for _, opt := range opts { opt(validator) }
RECURSIVE ApplyOptions(_, _)
ApplyOptions(opts, val) ==
    IF opts = <<>> THEN val
    ELSE ApplyOptions(Tail(opts), ApplyOption(Head(opts), val))

ValidIssuers(tenantID) ==
    << "https://sts.windows.net/" \o tenantID \o "/",
       "https://login.microsoftonline.com/" \o tenantID \o "/v2.0" >>

\* The validator literal NewValidator starts from, before the options.
InitialValidator(tenantID) ==
    Validator(ValidIssuers(tenantID), <<>>, TRUE, NilLogger)

\* The last check of NewValidator.
AudienceConfigRejectedNoCheck(val) == FALSE
AudienceConfigRejected(val) ==
    val.isAudienceCheckEnabled /\ Len(val.validAudiences) = 0

\* NewValidator(ctx, tenantID, opts...).  env gives the outcome of the calls
\* it makes into other packages: keyfunc.NewDefaultCtx for each key set and
\* zap.NewProduction.  The result is [err, v]; v is NilValidator on error.
NewValidator(tenantID, opts, env) ==
    LET configured == ApplyOptions(opts, InitialValidator(tenantID))
        logged == IF configured.logger = NilLogger
                  THEN [configured EXCEPT !.logger = "production"]
                  ELSE configured
    IN  IF tenantID = ""
            THEN [err |-> "tenantID vacio", v |-> NilValidator]
        ELSE IF ~env.jwksV1
            THEN [err |-> "fallo JWKS v1", v |-> NilValidator]
        ELSE IF ~env.jwksV2
            THEN [err |-> "fallo JWKS v2", v |-> NilValidator]
        ELSE IF configured.logger = NilLogger /\ ~env.zap
            THEN [err |-> "fallo logger", v |-> NilValidator]
        ELSE IF AudienceConfigRejected(logged)
            THEN [err |-> "audiencias requeridas", v |-> NilValidator]
        ELSE [err |-> "", v |-> logged]

\* Inputs of NewValidator.
TenantIDs == {"", "contoso"}
AudienceLists == {<<>>, <<"api://myapp">>, <<"api://myapp", "api://other">>}
Options ==
    {WithAudiences(a) : a \in AudienceLists}
        \cup {WithoutAudienceValidation}
        \cup {WithLogger(l) : l \in {NilLogger, "custom"}}
CtorEnvs == [jwksV1 : BOOLEAN, jwksV2 : BOOLEAN, zap : BOOLEAN]
NoCall == [tenantID |-> "", opts |-> <<>>,
           env |-> [jwksV1 |-> TRUE, jwksV2 |-> TRUE, zap |-> TRUE],
           err |-> ""]

\* ------------------------------------------------------------------ tokens
\* A token is what its compact serialization decodes to.  shape tells which
\* part, if any, does not decode: "segments" (not three dot-separated
\* segments), "header", "payload", "signature" (segment is not base64url /
\* JSON), or "ok".  signedBy names the public key whose private half made
\* the signature.  claims maps every name of ClaimNames to a JSON value.
ClaimNames ==
    {"iss", "aud", "sub", "exp", "roles", "name", "preferred_username", "tid", "scp"}
NoKey == "nokey"
Keys == {"pubA", "pubB"}
Kids == {"k1"}              \* key identifiers the provider may publish
TokenKids == {"k1", "k2"}   \* key identifiers a token header may carry
RegisteredAlgs == {"RS256", "HS256", "none"}   \* jwt.GetSigningMethod knows these

Token(shape, alg, kid, signedBy, claims) ==
    [shape |-> shape, alg |-> alg, kid |-> kid, signedBy |-> signedBy,
     claims |-> claims]

Contains(s, x) == \E i \in 1..Len(s) : s[i] = x

\* mapClaims.GetIssuer(), GetSubject(): the string, "" when absent or not a
\* string (the error is dropped by every caller here).
ClaimString(m, key) == IF m[key].kind = "string" THEN m[key].str ELSE ""

\* mapClaims.GetAudience(): a string is one audience, a list of strings is
\* that list, a list holding a non-string is an error and yields nothing.
GetAudience(m) ==
    LET a == m["aud"] IN
    CASE a.kind = "string" -> <<a.str>>
      [] a.kind = "list" ->
            IF \A i \in 1..Len(a.items) : a.items[i].kind = "string"
            THEN [i \in 1..Len(a.items) |-> a.items[i].str]
            ELSE <<>>
      [] OTHER -> <<>>

\* The registered-claims validation ParseWithClaims ends with: exp is
\* optional, must be a number, and must lie in the future ("past" and
\* "future" are the claim's value relative to the server's clock).
ValidateRegisteredClaims(m) ==
    LET e == m["exp"] IN
    CASE e.kind = "absent" -> ""
      [] e.kind = "number" -> IF e.str = "future" THEN "" ELSE "token is expired"
      [] OTHER -> "exp is invalid"

\* keyfunc.Keyfunc.Keyfunc(token) of one key set: the key published under the
\* token's kid, or that key set's own error.  A key set may refetch its
\* content when the kid is unknown; the lookup then answers from the new
\* content, which is a RefreshV1/RefreshV2 step taken before the request.
JwksKeyfunc(jwks, name, token) ==
    IF token.kid \in DOMAIN jwks /\ jwks[token.kid] # NoKey
    THEN [key |-> jwks[token.kid], err |-> "", asked |-> <<name>>]
    ELSE [key |-> NoKey, err |-> name \o ": key not found", asked |-> <<name>>]

\* Validator.keyFunc: v2 first, v1 only when v2 returned an error.
keyFuncV1First(k1, k2, token) ==
    LET first == JwksKeyfunc(k1, "jwksV1", token)
        second == JwksKeyfunc(k2, "jwksV2", token)
    IN  IF first.err = "" THEN first
        ELSE [second EXCEPT !.asked = first.asked \o second.asked]
keyFunc(k1, k2, token) ==
    LET first == JwksKeyfunc(k2, "jwksV2", token)
        second == JwksKeyfunc(k1, "jwksV1", token)
    IN  IF first.err = "" THEN first
        ELSE [second EXCEPT !.asked = first.asked \o second.asked]

\* jwt.WithValidMethods([]string{"RS256"})
ValidMethodsWithHMAC == {"RS256", "HS256"}
ValidMethods == {"RS256"}

\* jwt.ParseWithClaims(tokenString, &mapClaims, v.keyFunc, WithValidMethods):
\* decode, then the algorithm restriction, then the signature segment, then
\* the key callback, then the signature, then the registered claims.  The
\* result is [err, valid, asked]: err "" is nil, asked the key sets queried.
ParseWithClaims(tokenString, jwt, k1, k2) ==
    LET fail(e, asked) == [err |-> e, valid |-> FALSE, asked |-> asked]
        k == keyFunc(k1, k2, jwt)
    IN  IF tokenString # <<"<jwt>">>
            THEN fail("token is malformed", <<>>)
        ELSE IF jwt.shape = "segments"
            THEN fail("token contains an invalid number of segments", <<>>)
        ELSE IF jwt.shape \in {"header", "payload"}
            THEN fail("token is malformed", <<>>)
        ELSE IF jwt.alg \notin RegisteredAlgs
            THEN fail("signing method (alg) is unavailable", <<>>)
        ELSE IF jwt.alg \notin ValidMethods
            THEN fail("signing method " \o jwt.alg \o " is invalid", <<>>)
        ELSE IF jwt.shape = "signature"
            THEN fail("could not base64 decode signature", <<>>)
        ELSE IF k.err # ""
            THEN fail("error while executing keyfunc: " \o k.err, k.asked)
        ELSE IF k.key # jwt.signedBy
            THEN fail("signature is invalid", k.asked)
        ELSE IF ValidateRegisteredClaims(jwt.claims) # ""
            THEN fail(ValidateRegisteredClaims(jwt.claims), k.asked)
        ELSE [err |-> "", valid |-> TRUE, asked |-> k.asked]

\* ------------------------------------------------------ claims normalizer
UserClaims(sub, name, pu, tid, aud, iss, scp, roles, raw) ==
    [Subject |-> sub, Name |-> name, PreferredUser |-> pu, TenantID |-> tid,
     Audience |-> aud, Issuer |-> iss, Scopes |-> scp, Roles |-> roles,
     RawClaims |-> raw]

NoClaimsMap == [c \in ClaimNames |-> Absent]
NilClaims == UserClaims("", "", "", "", <<>>, "", "", <<>>, NoClaimsMap)

\* The loop over rolesInterfaces: append every element that is a string.
RECURSIVE StringElementsUntilMismatch(_)
StringElementsUntilMismatch(items) ==
    IF items = <<>> \/ Head(items).kind # "string" THEN <<>>
    ELSE <<Head(items).str>> \o StringElementsUntilMismatch(Tail(items))
RECURSIVE StringElements(_)
StringElements(items) ==
    IF items = <<>> THEN <<>>
    ELSE (IF Head(items).kind = "string" THEN <<Head(items).str>> ELSE <<>>)
            \o StringElements(Tail(items))

\* roles: only when the claim is present and is a list.
RolesOf(m) ==
    IF m["roles"].kind = "list" THEN StringElements(m["roles"].items) ELSE <<>>

\* x, _ := mapClaims[key].(string)
StringOrTextOf(m, key) == m[key].str
StringOrEmpty(m, key) == IF m[key].kind = "string" THEN m[key].str ELSE ""

buildUserClaims(m) ==
    UserClaims(ClaimString(m, "sub"),
               StringOrEmpty(m, "name"),
               StringOrEmpty(m, "preferred_username"),
               StringOrEmpty(m, "tid"),
               GetAudience(m),
               ClaimString(m, "iss"),
               StringOrEmpty(m, "scp"),
               RolesOf(m),
               m)

\* ------------------------------------------------------------ validation
\* audiencesIntersect: some token audience is one of the valid audiences.
audiencesEqual(validAudiences, tokenAudiences) ==
    /\ \A i \in 1..Len(tokenAudiences) : Contains(validAudiences, tokenAudiences[i])
    /\ \A i \in 1..Len(validAudiences) : Contains(tokenAudiences, validAudiences[i])
audiencesIntersect(validAudiences, tokenAudiences) ==
    \E i \in 1..Len(tokenAudiences) : Contains(validAudiences, tokenAudiences[i])

\* slices.Contains(v.validIssuers, issuer)
IssuerAcceptedAnyNonEmpty(val, issuer) == issuer # ""
IssuerAccepted(val, issuer) == Contains(val.validIssuers, issuer)

\* Validator.validateToken: [claims, err, asked]; claims is NilClaims and
\* err is set on failure.  token.Valid is true exactly when ParseWithClaims
\* returned no error, so the !token.Valid branch is written as the code has it.
validateToken(val, tokenString, jwt, k1, k2) ==
    LET p == ParseWithClaims(tokenString, jwt, k1, k2)
        m == jwt.claims
        issuer == ClaimString(m, "iss")
        audience == GetAudience(m)
        fail(e) == [claims |-> NilClaims, err |-> e, asked |-> p.asked]
    IN  IF p.err # ""
            THEN fail(Err(ErrTokenParsingFailed, p.err))
        ELSE IF ~p.valid
            THEN fail(Err(ErrTokenInvalid, ""))
        ELSE IF ~IssuerAccepted(val, issuer)
            THEN fail(Err(ErrInvalidIssuer, "Received: " \o issuer))
        ELSE IF val.isAudienceCheckEnabled
                /\ ~audiencesIntersect(val.validAudiences, audience)
            THEN fail(Err(ErrInvalidAudience, "Received"))
        ELSE [claims |-> buildUserClaims(m), err |-> NoError, asked |-> p.asked]

\* -------------------------------------------------------------- middleware
Request(hasAuth, auth, jwt) ==
    [hasAuth |-> hasAuth, auth |-> auth, jwt |-> jwt,
     remoteAddr |-> "10.0.0.7:4242", path |-> "/api/protected"]

Bearer == <<"B", "e", "a", "r", "e", "r", " ">>

\* Case folding of the letters the scheme can hold.
Fold(c) ==
    CASE c = "B" -> "b" [] c = "E" -> "e" [] c = "A" -> "a" [] c = "R" -> "r"
      [] OTHER -> c

\* strings.EqualFold
EqualFold(s, t) ==
    /\ Len(s) = Len(t)
    /\ \A i \in 1..Len(s) : Fold(s[i]) = Fold(t[i])

\* r.Header.Get("Authorization"): "" when the header is not there.
HeaderGet(r) == IF r.hasAuth THEN r.auth ELSE <<>>

\* extractBearerToken: [token, err].
extractBearerTokenCutPrefix(r) ==
    LET authHeader == HeaderGet(r) IN
    IF Len(authHeader) > 7 /\ SubSeq(authHeader, 1, 7) = Bearer
        THEN [token |-> SubSeq(authHeader, 8, Len(authHeader)), err |-> NoError]
    ELSE [token |-> <<>>, err |-> Err(ErrInvalidAuthHeaderFormat, "")]
extractBearerToken(r) ==
    LET authHeader == HeaderGet(r) IN
    IF authHeader = <<>>
        THEN [token |-> <<>>, err |-> Err(ErrMissingAuthHeader, "")]
    ELSE IF Len(authHeader) > 7 /\ EqualFold(SubSeq(authHeader, 1, 7), Bearer)
        THEN [token |-> SubSeq(authHeader, 8, Len(authHeader)), err |-> NoError]
    ELSE [token |-> <<>>, err |-> Err(ErrInvalidAuthHeaderFormat, "")]

\* problem.RespondError(w, problem.FromError(err, 401, WithInstance(r)))
NoResponse == [status |-> 0, err |-> NoError, instance |-> ""]
RespondError(err, r) == [status |-> 401, err |-> err, instance |-> r.path]

\* The error the validation failure branch hands to problem.FromError.
ClientErrorLeaking(err) == err
ClientError(err) == Err(ErrTokenInvalid, "")

NoContextClaims == [found |-> FALSE, claims |-> NilClaims]
\* context.WithValue(r.Context(), userClaimsKey{}, claims) read back by
\* GetClaimsFromContext.
GetClaimsFromContext(ctx) == ctx

LogEntry(sink, level, msg, err, remote, claims) ==
    [sink |-> sink, level |-> level, msg |-> msg, err |-> err,
     remote_addr |-> remote, claims |-> claims]

Outcome(response, calls, ctx, entries, asked) ==
    [resp |-> response, nextCalls |-> calls, ctxClaims |-> ctx,
     log |-> entries, keyLog |-> asked]

\* The handler Validator.Middleware(next) returns, run on one request.
MiddlewareFallsThrough(val, k1, k2, r) ==
    LET x == extractBearerToken(r)
        t == validateToken(val, x.token, r.jwt, k1, k2)
    IN  IF x.err # NoError
            THEN Outcome(RespondError(x.err, r), 0, NoContextClaims, <<>>, <<>>)
        ELSE IF t.err # NoError
            THEN Outcome(RespondError(ClientError(t.err), r), 1,
                         GetClaimsFromContext([found |-> TRUE, claims |-> t.claims]),
                         <<LogEntry(val.logger, "warn", "Token validation failed",
                                    t.err, r.remoteAddr, NilClaims)>>,
                         t.asked)
        ELSE Outcome(NoResponse, 1,
                     GetClaimsFromContext([found |-> TRUE, claims |-> t.claims]),
                     <<LogEntry(val.logger, "info", "Token validated",
                                NoError, "", t.claims)>>,
                     t.asked)
Middleware(val, k1, k2, r) ==
    LET x == extractBearerToken(r)
        t == validateToken(val, x.token, r.jwt, k1, k2)
    IN  IF x.err # NoError
            THEN Outcome(RespondError(x.err, r), 0, NoContextClaims, <<>>, <<>>)
        ELSE IF t.err # NoError
            THEN Outcome(RespondError(ClientError(t.err), r), 0, NoContextClaims,
                         <<LogEntry(val.logger, "warn", "Token validation failed",
                                    t.err, r.remoteAddr, NilClaims)>>,
                         t.asked)
        ELSE Outcome(NoResponse, 1,
                     GetClaimsFromContext([found |-> TRUE, claims |-> t.claims]),
                     <<LogEntry(val.logger, "info", "Token validated",
                                NoError, "", t.claims)>>,
                     t.asked)

\* ------------------------------------------------------------------ inputs
IssuerV1 == ValidIssuers("contoso")[1]
IssuerV2 == ValidIssuers("contoso")[2]
BaseClaims ==
    [NoClaimsMap EXCEPT !["iss"] = Str(IssuerV2),
                        !["aud"] = List(<<Str("api://myapp")>>),
                        !["sub"] = Str("u1")]

IssValues ==
    {Str(IssuerV1), Str(IssuerV2), Str("https://evil.example/contoso/v2.0"),
     Str("https://sts.windows.net/contoso"), Str("https://sts.windows.net/fabrikam/"),
     Absent, Num("7")}
AudElements == {Str("api://myapp"), Str("api://evil"), Num("42")}
AudValues ==
    {Absent, Str("api://myapp"), Str("api://evil")}
        \cup {List(xs) : xs \in SeqsUpTo(AudElements, MaxAud)}
ExpValues == {Absent, Num("future"), Num("past"), Str("soon")}
RoleElements == {Str("Admin"), Str("Reader"), Num("42")}
RolesValues ==
    {Absent, Str("Admin"), Num("42")}
        \cup {List(xs) : xs \in SeqsUpTo(RoleElements, MaxRoles)}
OptionalValues == {Absent, Str("Alice"), Num("42")}

RS256Token(kid, claims) == Token("ok", "RS256", kid, "pubA", claims)

\* Tokens that differ in what the pipeline checks.
PipelineTokens ==
    {RS256Token(kid, [BaseClaims EXCEPT !["iss"] = iss, !["aud"] = aud, !["exp"] = exp]) :
        kid \in TokenKids, iss \in IssValues, exp \in ExpValues,
        aud \in {List(<<Str("api://myapp")>>), List(<<Str("api://evil")>>)}}
    \cup
    {RS256Token("k1", [BaseClaims EXCEPT !["iss"] = iss, !["aud"] = aud]) :
        iss \in {Str(IssuerV1), Str(IssuerV2), Str("https://evil.example/contoso/v2.0")},
        aud \in AudValues}
    \cup
    {Token(shape, alg, kid, "pubA", [BaseClaims EXCEPT !["iss"] = iss]) :
        shape \in {"ok", "signature"}, alg \in {"HS256", "none", "XS999"},
        kid \in TokenKids,
        iss \in {Str(IssuerV2), Str("https://evil.example/contoso/v2.0")}}
    \cup
    {Token(shape, "RS256", "k1", "pubA", [BaseClaims EXCEPT !["iss"] = iss]) :
        shape \in {"segments", "header", "payload", "signature"},
        iss \in {Str(IssuerV2), Str("https://evil.example/contoso/v2.0")}}

\* Tokens that differ in what the claims normalizer reads.
NormalizerTokens ==
    {RS256Token("k1", [BaseClaims EXCEPT !["name"] = n, !["preferred_username"] = pu,
                                         !["tid"] = tid, !["scp"] = scp]) :
        n \in OptionalValues, pu \in OptionalValues,
        tid \in OptionalValues, scp \in OptionalValues}
    \cup
    {RS256Token("k1", [BaseClaims EXCEPT !["roles"] = r, !["sub"] = sub]) :
        r \in RolesValues, sub \in {Str("u1"), Absent}}

Tokens == PipelineTokens \cup NormalizerTokens
DefaultToken == RS256Token("k1", BaseClaims)

Schemes ==
    {Bearer,
     <<"b", "e", "a", "r", "e", "r", " ">>,
     <<"B", "E", "A", "R", "E", "R", " ">>,
     <<"B", "e", "a", "r", "e", "r", "_">>,
     <<"B", "e", "a", "r", "e", "r">>,
     <<"B", "a", "s", "i", "c", " ">>,
     <<>>}

Requests ==
    {Request(FALSE, <<>>, DefaultToken), Request(TRUE, <<>>, DefaultToken)}
        \cup {Request(TRUE, s \o rest, DefaultToken) :
                s \in Schemes,
                rest \in {<<>>, <<"x">>, <<"<jwt>">>, <<" ", "<jwt>">>, <<"<jwt>", "x">>}}
        \cup {Request(TRUE, Bearer \o <<"<jwt>">>, t) : t \in Tokens}

JwksContents == [Kids -> Keys \cup {NoKey}]
EmptyJwks == [k \in Kids |-> NoKey]

\* ----------------------------------------------------------------- actions
Init ==
    /\ phase = "boot"
    /\ ctor = NoCall
    /\ v = NilValidator
    /\ jwksV1 = EmptyJwks
    /\ jwksV2 = EmptyJwks
    /\ req = Request(FALSE, <<>>, DefaultToken)
    /\ resp = NoResponse
    /\ nextCalls = 0
    /\ ctxClaims = NoContextClaims
    /\ log = <<>>
    /\ keyLog = <<>>
    /\ masked = {}

\* main calls NewValidator; the call returns a Validator or an error.
NewValidatorCall ==
    /\ phase = "boot"
    /\ \E tenantID \in TenantIDs, opts \in SeqsUpTo(Options, MaxOpts), env \in CtorEnvs :
        LET r == NewValidator(tenantID, opts, env) IN
        /\ ctor' = [tenantID |-> tenantID, opts |-> opts, env |-> env, err |-> r.err]
        /\ v' = r.v
        /\ phase' = IF r.err = "" THEN "constructed" ELSE "failed"
    /\ UNCHANGED <<jwksV1, jwksV2, req, resp, nextCalls, ctxClaims, log, keyLog, masked>>

\* The Validator's middleware is mounted and the server starts serving.
Serve ==
    /\ phase = "constructed"
    /\ phase' = "idle"
    /\ ctor' = NoCall
    /\ UNCHANGED <<v, jwksV1, jwksV2, req, resp, nextCalls, ctxClaims, log, keyLog, masked>>

\* The background refresh of a key set replaces its content wholesale.  A
\* request is handled in one step, so refreshes are taken between requests.
RefreshV1 ==
    /\ phase = "idle"
    /\ \E c \in JwksContents : c # jwksV1 /\ jwksV1' = c
    /\ UNCHANGED <<phase, ctor, v, jwksV2, req, resp, nextCalls, ctxClaims, log, keyLog, masked>>

RefreshV2 ==
    /\ phase = "idle"
    /\ \E c \in JwksContents : c # jwksV2 /\ jwksV2' = c
    /\ UNCHANGED <<phase, ctor, v, jwksV1, req, resp, nextCalls, ctxClaims, log, keyLog, masked>>

\* One request goes through the handler Middleware returned.  The handler
\* keeps nothing between requests and writes no shared state, so requests in
\* flight together behave as requests handled one after the other.
Handle ==
    /\ phase = "idle"
    /\ \E r \in Requests :
        LET out == Middleware(v, jwksV1, jwksV2, r) IN
        /\ req' = r
        /\ resp' = out.resp
        /\ nextCalls' = out.nextCalls
        /\ ctxClaims' = out.ctxClaims
        /\ log' = out.log
        /\ keyLog' = out.keyLog
        /\ masked' = IF \E i \in 1..Len(out.log) : out.log[i].level = "warn"
                     THEN masked \cup {out.resp} ELSE masked
    /\ phase' = "done"
    /\ UNCHANGED <<ctor, v, jwksV1, jwksV2>>

\* The request completes; its context and response are gone.
Complete ==
    /\ phase = "done"
    /\ phase' = "idle"
    /\ req' = Request(FALSE, <<>>, DefaultToken)
    /\ resp' = NoResponse
    /\ nextCalls' = 0
    /\ ctxClaims' = NoContextClaims
    /\ log' = <<>>
    /\ keyLog' = <<>>
    /\ UNCHANGED <<ctor, v, jwksV1, jwksV2, masked>>

Next == NewValidatorCall \/ Serve \/ RefreshV1 \/ RefreshV2 \/ Handle \/ Complete

Spec == Init /\ [][Next]_vars

\* ------------------------------------------------------------ verification
\* What the request being handled went through, recomputed from the request
\* and the state it was handled in (the key sets do not change while a
\* request is in phase "done").
Extraction == extractBearerToken(req)
Extracted == Extraction.err = NoError
Validation == validateToken(v, Extraction.token, req.jwt, jwksV1, jwksV2)
Validated == Extracted /\ Validation.err = NoError
Parsed == Extracted /\ ParseWithClaims(Extraction.token, req.jwt, jwksV1, jwksV2).err = ""

\* C1: for every request, in any sequence of requests, the downstream
\* handler runs exactly once when extraction and validation both succeed and
\* never otherwise; when it does not run the response is a 401; and the
\* claims it finds in its context (found = TRUE) are the Normalized Claims of
\* that request's own token.
C1_ForwardExactlyOnSuccess ==
    /\ phase # "done" => nextCalls = 0
    /\ phase = "done" =>
        /\ nextCalls = (IF Validated THEN 1 ELSE 0)
        /\ nextCalls = 0 => resp.status = 401 /\ ~ctxClaims.found
        /\ nextCalls = 1 =>
            /\ resp = NoResponse
            /\ ctxClaims.found
            /\ ctxClaims.claims = buildUserClaims(req.jwt.claims)
            /\ ctxClaims.claims = Validation.claims

\* A second request of a run is forwarded, with claims of its own, after an
\* earlier one was rejected.
C1_Witness ==
    /\ phase = "done"
    /\ masked # {}
    /\ nextCalls = 1
    /\ ctxClaims.found
    /\ ctxClaims.claims.Name = "Alice"
    /\ ctxClaims.claims.Subject = "u1"

\* C2: every request whose token was extracted but failed validation gets
\* the same response, 401 with the generic ErrTokenInvalid and nothing of the
\* specific error, whichever stage failed and whatever the token held; the
\* specific error goes to the log, as one warning with the remote address.
C2_UniformRejection ==
    /\ Cardinality(masked) <= 1
    /\ phase = "done" /\ Extracted /\ ~Validated =>
        /\ resp = [status |-> 401, err |-> [is |-> ErrTokenInvalid, detail |-> ""],
                   instance |-> req.path]
        /\ resp \in masked
        /\ Len(log) = 1
        /\ log[1].level = "warn"
        /\ log[1].sink = v.logger
        /\ log[1].err = Validation.err
        /\ log[1].err.is \in {ErrTokenParsingFailed, ErrInvalidIssuer, ErrInvalidAudience}
        /\ log[1].remote_addr = req.remoteAddr

\* A token of the wrong audience is rejected with the generic error while
\* the log names the audience check.
C2_Witness ==
    /\ phase = "done"
    /\ Len(log) = 1
    /\ log[1].err.is = ErrInvalidAudience
    /\ resp.status = 401
    /\ resp.err.is = ErrTokenInvalid
    /\ req.jwt.claims["aud"] = List(<<Str("api://evil")>>)
    /\ req.jwt.claims["exp"] = Num("future")
    /\ keyLog = <<"jwksV2", "jwksV1">>

\* The header value starts with `Bearer `, compared without regard to case.
StartsWithBearer(h) == Len(h) >= 7 /\ EqualFold(SubSeq(h, 1, 7), Bearer)

\* When extraction fails the response carries the extraction error and
\* validation does not run (no key set is asked, nothing is logged).
ExtractionErrorSurfaced ==
    phase = "done" /\ ~Extracted =>
        /\ resp = [status |-> 401, err |-> Extraction.err, instance |-> req.path]
        /\ resp.err.is \in {ErrMissingAuthHeader, ErrInvalidAuthHeaderFormat}
        /\ nextCalls = 0
        /\ log = <<>>
        /\ keyLog = <<>>

\* C3 as stated: extraction failures surface the extraction error; no
\* Authorization header gives MissingAuthHeader; every Authorization header
\* that does not start with `Bearer ` gives InvalidAuthHeaderFormat.
C3_AsStated ==
    /\ ExtractionErrorSurfaced
    /\ phase = "done" /\ ~req.hasAuth =>
        resp.status = 401 /\ resp.err.is = ErrMissingAuthHeader
    /\ phase = "done" /\ req.hasAuth /\ ~StartsWithBearer(req.auth) =>
        resp.status = 401 /\ resp.err.is = ErrInvalidAuthHeaderFormat

\* C3 amended: an Authorization header with an empty value is answered like
\* a missing one (MissingAuthHeader); InvalidAuthHeaderFormat is the answer
\* to every non-empty header that does not start with `Bearer `.
C3_ExtractionErrors ==
    /\ ExtractionErrorSurfaced
    /\ phase = "done" /\ (~req.hasAuth \/ req.auth = <<>>) =>
        resp.status = 401 /\ resp.err.is = ErrMissingAuthHeader
    /\ phase = "done" /\ req.hasAuth /\ req.auth # <<>> /\ ~StartsWithBearer(req.auth) =>
        resp.status = 401 /\ resp.err.is = ErrInvalidAuthHeaderFormat

\* A `Basic ` header followed by a token is refused for its format.
C3_Witness ==
    /\ phase = "done"
    /\ req.hasAuth
    /\ req.auth = <<"B", "a", "s", "i", "c", " ", "<jwt>">>
    /\ resp.status = 401
    /\ resp.err.is = ErrInvalidAuthHeaderFormat

SetOf(s) == {s[i] : i \in 1..Len(s)}

\* The audiences the raw `aud` claim names: a string, or the strings of a list.
DeclaredAudiences(m) ==
    LET a == m["aud"] IN
    CASE a.kind = "string" -> {a.str}
      [] a.kind = "list" ->
            {a.items[i].str : i \in {j \in 1..Len(a.items) : a.items[j].kind = "string"}}
      [] OTHER -> {}

\* The same, except that a list holding anything but strings names none.
WellFormedAudiences(m) ==
    IF m["aud"].kind = "list"
        /\ \E i \in 1..Len(m["aud"].items) : m["aud"].items[i].kind # "string"
    THEN {} ELSE DeclaredAudiences(m)

\* The issuer claim is a string and is one of the two issuers of the tenant.
IssuerOfTenant(m) ==
    /\ m["iss"].kind = "string"
    /\ m["iss"].str \in {"https://sts.windows.net/contoso/",
                         "https://login.microsoftonline.com/contoso/v2.0"}

\* The request's token passed parse, algorithm, signature and issuer checks.
ReachedAudienceCheck == phase = "done" /\ Parsed /\ IssuerOfTenant(req.jwt.claims)

\* C4 as stated: a token that passed parse, algorithm, signature and issuer
\* checks validates iff audience checking is off or one of the audiences it
\* declares is an accepted one; otherwise it fails with InvalidAudience.
C4_AsStated ==
    ReachedAudienceCheck =>
        LET pass == \/ ~v.isAudienceCheckEnabled
                    \/ DeclaredAudiences(req.jwt.claims) \cap SetOf(v.validAudiences) # {}
        IN  /\ pass <=> Validation.err = NoError
            /\ ~pass => Validation.err.is = ErrInvalidAudience

\* C4 amended: the audiences that count are those of a well-formed `aud`
\* claim: a string, or a list of strings only; a list holding any non-string
\* element declares no audience at all, as does an absent claim.
C4_AudienceIntersection ==
    ReachedAudienceCheck =>
        LET pass == \/ ~v.isAudienceCheckEnabled
                    \/ WellFormedAudiences(req.jwt.claims) \cap SetOf(v.validAudiences) # {}
        IN  /\ pass <=> Validation.err = NoError
            /\ pass <=> nextCalls = 1
            /\ ~pass => Validation.err.is = ErrInvalidAudience

\* A token naming one of two accepted audiences, after one that is not
\* accepted, validates: intersection, not equality.
C4_Witness ==
    /\ ReachedAudienceCheck
    /\ v.isAudienceCheckEnabled
    /\ v.validAudiences = <<"api://myapp", "api://other">>
    /\ req.jwt.claims["aud"] = List(<<Str("api://evil"), Str("api://myapp")>>)
    /\ nextCalls = 1

Max(S) == CHOOSE x \in S : \A y \in S : y <= x

\* The accepted audiences a sequence of options leaves: those of the last
\* WithAudiences, none without one.
LastAudiences(opts) ==
    LET at == {i \in 1..Len(opts) : opts[i].opt = "WithAudiences"}
    IN  IF at = {} THEN <<>> ELSE opts[Max(at)].audiences

CheckDisabled(opts) == \E i \in 1..Len(opts) : opts[i] = WithoutAudienceValidation

\* C5: a Validator NewValidator returns has a non-empty accepted-audience
\* set whenever audience checking is enabled, for every sequence of options
\* (later ones overwriting earlier ones, checking enabled unless
\* WithoutAudienceValidation was passed); the call fails and returns no
\* Validator when the tenant is empty, when either key set fails to
\* initialize, or when checking is enabled and no audience is accepted.
C5_ConstructionInvariant ==
    /\ v.isAudienceCheckEnabled => Len(v.validAudiences) > 0
    /\ phase = "constructed" =>
        /\ ctor.err = ""
        /\ v.isAudienceCheckEnabled = ~CheckDisabled(ctor.opts)
        /\ v.validAudiences = LastAudiences(ctor.opts)
        /\ v.logger # NilLogger
    /\ phase \in {"constructed", "failed"} =>
        /\ (\/ ctor.tenantID = ""
            \/ ~ctor.env.jwksV1
            \/ ~ctor.env.jwksV2
            \/ ~CheckDisabled(ctor.opts) /\ LastAudiences(ctor.opts) = <<>>)
                => phase = "failed"
        /\ phase = "failed" <=> ctor.err # ""
        /\ phase = "failed" => v = NilValidator

\* A later WithAudiences overwrote an earlier, different one.
C5_Witness ==
    /\ phase = "constructed"
    /\ v.isAudienceCheckEnabled
    /\ Len(ctor.opts) = 2
    /\ ctor.opts[1].opt = "WithAudiences"
    /\ ctor.opts[2].opt = "WithAudiences"
    /\ ctor.opts[1].audiences # ctor.opts[2].audiences
    /\ v.validAudiences = ctor.opts[2].audiences

\* The request carries a token whose header and payload decode.
Decodable ==
    /\ phase = "done"
    /\ Extracted
    /\ Extraction.token = <<"<jwt>">>
    /\ req.jwt.shape \in {"ok", "signature"}

\* C6 as stated: a token whose issuer is not one of the two issuers of the
\* tenant fails validation with InvalidIssuer, whatever its signature.
C6_AsStated ==
    Decodable /\ req.jwt.shape = "ok" /\ req.jwt.alg = "RS256"
        /\ ~IssuerOfTenant(req.jwt.claims) =>
        Validation.err.is = ErrInvalidIssuer

\* C6 amended: such a token never validates; the error is InvalidIssuer when
\* the token passed ParseWithClaims (algorithm, key resolution, signature,
\* expiry), and TokenParsingFailed when it did not, since the issuer is
\* checked after them.
C6_IssuerRejected ==
    Decodable /\ ~IssuerOfTenant(req.jwt.claims) =>
        /\ nextCalls = 0
        /\ resp.status = 401
        /\ Validation.err.is = (IF Parsed THEN ErrInvalidIssuer ELSE ErrTokenParsingFailed)
        /\ log[1].err = Validation.err

\* A correctly signed token of the v1 issuer without its trailing slash is
\* refused by the issuer check.
C6_Witness ==
    /\ Decodable
    /\ Parsed
    /\ req.jwt.claims["iss"] = Str("https://sts.windows.net/contoso")
    /\ log[1].err.is = ErrInvalidIssuer
    /\ resp.status = 401

\* C7: a structurally valid token that declares an algorithm other than
\* RS256 is rejected before any key is looked up: neither key set is asked
\* for that token, however well-formed it is otherwise.
C7_AlgorithmBeforeKeyLookup ==
    Decodable /\ req.jwt.shape = "ok" /\ req.jwt.alg # "RS256" =>
        /\ keyLog = <<>>
        /\ nextCalls = 0
        /\ resp.status = 401
        /\ Validation.err.is = ErrTokenParsingFailed

\* An HS256 token is rejected although its key identifier resolves in the v2
\* key set to the very key that signed it and its claims would pass.
C7_Witness ==
    /\ Decodable
    /\ req.jwt.shape = "ok"
    /\ req.jwt.alg = "HS256"
    /\ req.jwt.kid = "k1"
    /\ jwksV2["k1"] = req.jwt.signedBy
    /\ IssuerOfTenant(req.jwt.claims)
    /\ keyLog = <<>>
    /\ resp.status = 401

\* The key set publishes a key under the token's key identifier.
Publishes(jwks, token) == token.kid \in DOMAIN jwks /\ jwks[token.kid] \in Keys

\* The request's token got as far as key resolution.
ReachedKeyLookup ==
    Decodable /\ req.jwt.shape = "ok" /\ req.jwt.alg = "RS256"

\* C8: key resolution asks the v2 key set first and the v1 key set only when
\* v2 returned an error.  When v2 has the key it is returned and v1 is not
\* asked; when only v1 has it, v1's key is returned and a token signed with
\* it validates; when neither has it, the error is that of the v1 lookup.
C8_V2ThenV1 ==
    ReachedKeyLookup =>
        LET k == keyFunc(jwksV1, jwksV2, req.jwt) IN
        /\ keyLog = k.asked
        /\ Publishes(jwksV2, req.jwt) =>
            /\ keyLog = <<"jwksV2">>
            /\ k.err = "" /\ k.key = jwksV2[req.jwt.kid]
            /\ Parsed => jwksV2[req.jwt.kid] = req.jwt.signedBy
        /\ ~Publishes(jwksV2, req.jwt) /\ Publishes(jwksV1, req.jwt) =>
            /\ keyLog = <<"jwksV2", "jwksV1">>
            /\ k.err = "" /\ k.key = jwksV1[req.jwt.kid]
            /\ (/\ jwksV1[req.jwt.kid] = req.jwt.signedBy
                /\ req.jwt.claims["exp"] \in {Absent, Num("future")}) => Parsed
        /\ ~Publishes(jwksV2, req.jwt) /\ ~Publishes(jwksV1, req.jwt) =>
            /\ keyLog = <<"jwksV2", "jwksV1">>
            /\ k.err = "jwksV1: key not found"
            /\ log[1].err = Err(ErrTokenParsingFailed,
                                "error while executing keyfunc: jwksV1: key not found")

\* A token whose key is published by v1 only, while v2 publishes nothing
\* under its identifier, is forwarded after both key sets were asked.
C8_Witness ==
    /\ ReachedKeyLookup
    /\ ~Publishes(jwksV2, req.jwt)
    /\ jwksV1[req.jwt.kid] = req.jwt.signedBy
    /\ keyLog = <<"jwksV2", "jwksV1">>
    /\ nextCalls = 1

\* The request's token passed parse, signature, issuer and audience checks.
PassedChecks ==
    /\ ReachedAudienceCheck
    /\ \/ ~v.isAudienceCheckEnabled
       \/ WellFormedAudiences(req.jwt.claims) \cap SetOf(v.validAudiences) # {}

\* The string elements of a list, in order.
StringsIn(items) ==
    LET kept == SelectSeq(items, LAMBDA x : x.kind = "string")
    IN  [i \in 1..Len(kept) |-> kept[i].str]

\* C9: Roles is the subsequence of the string elements of the raw `roles`
\* list, in their order, non-strings dropped; it is empty, and nothing fails,
\* when `roles` is absent or not a list.
C9_RolesExtraction ==
    PassedChecks =>
        LET r == req.jwt.claims["roles"] IN
        /\ nextCalls = 1
        /\ r.kind = "list" => ctxClaims.claims.Roles = StringsIn(r.items)
        /\ r.kind # "list" => ctxClaims.claims.Roles = <<>>
        /\ r = List(<<Str("Admin"), Num("42"), Str("Reader")>>) =>
                ctxClaims.claims.Roles = <<"Admin", "Reader">>

\* The example of the claim: ["Admin", 42, "Reader"] gives ["Admin", "Reader"].
C9_Witness ==
    /\ PassedChecks
    /\ req.jwt.claims["roles"] = List(<<Str("Admin"), Num("42"), Str("Reader")>>)
    /\ nextCalls = 1
    /\ ctxClaims.claims.Roles = <<"Admin", "Reader">>

\* The value a string field takes from a raw claim.
Expected(m, key) == IF m[key].kind = "string" THEN m[key].str ELSE ""

\* C10: normalization never fails: a token that passed parse, signature,
\* issuer and audience checks yields Normalized Claims and no error whatever
\* its optional claims hold; name, preferred_username, tid and scp are copied
\* when they are strings and are "" when absent or of another type; the raw
\* claims are carried through in full.
C10_NormalizationTotal ==
    PassedChecks =>
        LET m == req.jwt.claims
            c == ctxClaims.claims
        IN  /\ Validation.err = NoError
            /\ nextCalls = 1 /\ ctxClaims.found
            /\ c.Name = Expected(m, "name")
            /\ c.PreferredUser = Expected(m, "preferred_username")
            /\ c.TenantID = Expected(m, "tid")
            /\ c.Scopes = Expected(m, "scp")
            /\ c.RawClaims = m

\* A token with a numeric name, no scp and a string tid is normalized.
C10_Witness ==
    /\ PassedChecks
    /\ req.jwt.claims["name"] = Num("42")
    /\ req.jwt.claims["scp"] = Absent
    /\ req.jwt.claims["tid"] = Str("Alice")
    /\ nextCalls = 1
    /\ ctxClaims.claims.Name = ""
    /\ ctxClaims.claims.Scopes = ""
    /\ ctxClaims.claims.TenantID = "Alice"

\* The key callback fails for the request's token, or returns a key that did
\* not sign it.
KeyOrSignatureFails ==
    LET k == keyFunc(jwksV1, jwksV2, req.jwt)
    IN  k.err # "" \/ k.key # req.jwt.signedBy

\* C11: only a token that does not decode fails with TokenParsingFailed; a
\* token that decodes but whose key is not resolved, or whose signature does
\* not verify against the resolved key, fails with TokenInvalid, an error for
\* which errors.Is(err, ErrTokenInvalid) holds, and not with
\* TokenParsingFailed.
C11_AsStated ==
    /\ ReachedKeyLookup /\ KeyOrSignatureFails =>
        /\ Validation.err.is = ErrTokenInvalid
        /\ log[1].err.is = ErrTokenInvalid
    /\ ReachedKeyLookup => Validation.err.is # ErrTokenParsingFailed

====
